---- MODULE Spec2Model ----
(***************************************************************************)
(* Model of lib/hypervisor/hv_fake.py (FakeHypervisor): the state          *)
(* directory with one record file per running instance, and the handlers   *)
(* that read, create and remove those files.                               *)
(*                                                                         *)
(* Text is modelled as sequences of one-character strings, so that         *)
(* formatting ("%d") and parsing (readline().strip()) are computed and not *)
(* assumed to be inverse to each other. Python values carry their type     *)
(* (t) beside their value (v), so that the text "512" and the integer 512  *)
(* are different values, as they are in Python.                            *)
(***************************************************************************)
EXTENDS Integers, Sequences, FiniteSets, TLC

VARIABLES
  fs,         \* the file system below _ROOT_DIR: directory, links, inodes
  last,       \* the call that returned most recently, with its result
  lifecycle,  \* per name: the last successful Start/Stop, with its arguments
  proc,       \* per caller: the call in progress (position, arguments, fd)
  calls,      \* number of calls begun by concurrent callers
  scan        \* per caller: the directory listing GetAllInstancesInfo walks

vars == <<fs, last, lifecycle, proc, calls, scan>>

-----------------------------------------------------------------------------
(* Bounds of the model *)

NumNames == 2
NumCallers == 2
MaxCalls == 2

NameList == <<"web1", "web2", "db1", "db2">>
Names == {NameList[i] : i \in 1..NumNames}
Memories == {512, 1024}
Vcpus == {1, 2}
Callers == 1..NumCallers
\* concurrent callers contend for one name
RaceNames == {NameList[1]}

-----------------------------------------------------------------------------
(* Python values *)

NoneVal == [t |-> "None", v |-> 0]
IntVal(n) == [t |-> "int", v |-> n]
StrVal(s) == [t |-> "str", v |-> s]
ListVal(S) == [t |-> "list", v |-> S]
\* Python's ==: values of different types are different
PyEq(a, b) == a.t = b.t /\ a.v = b.v

Ok(val) == [kind |-> "ok", msg |-> "", val |-> val]
Raise(kind, msg) == [kind |-> kind, msg |-> msg, val |-> NoneVal]
HypervisorError(msg) == Raise("HypervisorError", msg)

-----------------------------------------------------------------------------
(* Text: formatting and parsing *)

DigitChars == <<"0", "1", "2", "3", "4", "5", "6", "7", "8", "9">>
Whitespace == {" ", "\n", "\t"}

\* "%d" % n, for n >= 0
RECURSIVE FormatD(_)
FormatD(n) ==
  IF n < 10 THEN <<DigitChars[n + 1]>>
  ELSE FormatD(n \div 10) \o <<DigitChars[(n % 10) + 1]>>

\* a record with memory and vcpus on one line: "0\n%d %d\n"
RecordText_OneLine(memory, vcpus) ==
  <<"0", "\n">> \o FormatD(memory) \o <<" ">> \o FormatD(vcpus) \o <<"\n">>

\* "0\n%d\n%d\n" % (instance.memory, instance.vcpus)
RecordText(memory, vcpus) ==
  <<"0", "\n">> \o FormatD(memory) \o <<"\n">> \o FormatD(vcpus) \o <<"\n">>

\* length of the line starting at the head of s, its newline included
RECURSIVE LineLen(_)
LineLen(s) ==
  IF s = <<>> THEN 0
  ELSE IF Head(s) = "\n" THEN 1
  ELSE 1 + LineLen(Tail(s))

\* fh.readline(): the next line with its newline, "" at end of file
ReadLine(s) == SubSeq(s, 1, LineLen(s))
AfterLine(s) == SubSeq(s, LineLen(s) + 1, Len(s))

RECURSIVE LStrip(_)
LStrip(s) ==
  IF s # <<>> /\ Head(s) \in Whitespace THEN LStrip(Tail(s)) ELSE s

RECURSIVE RStrip(_)
RStrip(s) ==
  IF s # <<>> /\ s[Len(s)] \in Whitespace
  THEN RStrip(SubSeq(s, 1, Len(s) - 1)) ELSE s

\* str.strip()
Strip(s) == RStrip(LStrip(s))

\* the three readline().strip() of a reader, and the tuple it builds
InstanceTuple(name, data) ==
  LET inst_id == Strip(ReadLine(data))
      rest1   == AfterLine(data)
      memory  == Strip(ReadLine(rest1))
      rest2   == AfterLine(rest1)
      vcpus   == Strip(ReadLine(rest2))
  IN  [t |-> "tuple", v |-> 0, name |-> name, inst_id |-> StrVal(inst_id),
       memory |-> StrVal(memory), vcpus |-> StrVal(vcpus),
       stat |-> "---b-", times |-> "0"]

-----------------------------------------------------------------------------
(* The file system below _ROOT_DIR, and the system calls the handlers make *)

EmptyMap == [x \in {} |-> 0]
MapPut(f, k, val) == [x \in DOMAIN f \cup {k} |-> IF x = k THEN val ELSE f[x]]
MapDrop(f, k) == [x \in DOMAIN f \ {k} |-> f[x]]
Linked(f) == {f.link[n] : n \in DOMAIN f.link}

\* no directory
NoDir == [dir |-> FALSE, link |-> EmptyMap, data |-> EmptyMap]

\* the smallest inode number not in use
FreshInode(f) ==
  CHOOSE i \in 1..(Cardinality(DOMAIN f.data) + 1) :
    /\ i \notin DOMAIN f.data
    /\ \A j \in 1..(i - 1) : j \in DOMAIN f.data

\* an inode lives while it is linked or some caller holds it open
Collect(f, held) ==
  [f EXCEPT !.data = [i \in (DOMAIN f.data) \cap (Linked(f) \cup held) |-> f.data[i]]]

\* os.path.exists(file_name)
PathExists(f, name) == f.dir /\ name \in DOMAIN f.link

\* os.path.exists(self._ROOT_DIR)
DirExists(f) == f.dir

\* os.mkdir(self._ROOT_DIR)
Mkdir(f) == [f EXCEPT !.dir = TRUE]

\* os.listdir(self._ROOT_DIR): the names, or OSError when there is no directory
ListDir(f) ==
  IF f.dir THEN Ok(ListVal(DOMAIN f.link)) ELSE Raise("OSError", "ENOENT")

\* file(file_name, "w"): creates the file, or truncates the one that exists;
\* IOError when there is no directory. fd = 0 stands for the failure.
OpenWrite(f, name) ==
  IF ~f.dir THEN [fs |-> f, fd |-> 0]
  ELSE IF name \in DOMAIN f.link
    THEN [fs |-> [f EXCEPT !.data[f.link[name]] = <<>>], fd |-> f.link[name]]
    ELSE LET i == FreshInode(f)
         IN  [fs |-> [f EXCEPT !.link = MapPut(f.link, name, i),
                               !.data = MapPut(f.data, i, <<>>)],
              fd |-> i]

\* a writer that appends (mode "a") where the code truncates and writes at 0
WriteAt0_Append(old, text) ==
  old \o text

\* the buffered text reaches the file at offset 0 of the open inode; what
\* another writer put behind it stays
WriteAt0(old, text) ==
  text \o SubSeq(old, Len(text) + 1, Len(old))

\* fh.write(text); fh.close()
WriteClose(f, fd, text) ==
  [f EXCEPT !.data[fd] = WriteAt0(f.data[fd], text)]

\* file(file_name, "r"): IOError when the file is not there (fd = 0)
OpenRead(f, name) ==
  IF PathExists(f, name) THEN f.link[name] ELSE 0

\* utils.RemoveFile(file_name): unlinks the file, a missing one is ignored
RemoveFile(f, name) ==
  IF PathExists(f, name)
  THEN [f EXCEPT !.link = MapDrop(f.link, name)]
  ELSE f

-----------------------------------------------------------------------------
(* The handlers, each run from call to return with no other caller between *)

\* a constructor that makes the directory anew, dropping what it held
InitRun_Wipes(f) ==
  [fs |-> Mkdir(NoDir), res |-> Ok(NoneVal)]

\* FakeHypervisor.__init__
InitRun(f) ==
  [fs |-> IF ~DirExists(f) THEN Mkdir(f) ELSE f, res |-> Ok(NoneVal)]

\* FakeHypervisor.ListInstances
ListInstancesRun(f) ==
  [fs |-> f, res |-> ListDir(f)]

\* a reader that opens the file without asking whether it exists
GetInstanceInfoRun_NoCheck(f, name) ==
  LET fd == OpenRead(f, name)
  IN  IF fd = 0
      THEN [fs |-> f, res |-> HypervisorError("IOError")]
      ELSE [fs |-> f, res |-> Ok(InstanceTuple(name, f.data[fd]))]

\* a reader that answers a record of empty fields for a missing file
GetInstanceInfoRun_Defaults(f, name) ==
  LET fd == OpenRead(f, name)
  IN  IF fd = 0
      THEN [fs |-> f, res |-> Ok(InstanceTuple(name, <<>>))]
      ELSE [fs |-> f, res |-> Ok(InstanceTuple(name, f.data[fd]))]

\* a reader that opens the file with mode "w": the open truncates the record
GetInstanceInfoRun_Truncates(f, name) ==
  IF ~PathExists(f, name) THEN [fs |-> f, res |-> Ok(NoneVal)]
  ELSE LET o == OpenWrite(f, name)
       IN  IF o.fd = 0
           THEN [fs |-> o.fs, res |-> HypervisorError("IOError")]
           ELSE [fs |-> o.fs, res |-> Ok(InstanceTuple(name, o.fs.data[o.fd]))]

\* FakeHypervisor.GetInstanceInfo
GetInstanceInfoRun(f, name) ==
  IF ~PathExists(f, name) THEN [fs |-> f, res |-> Ok(NoneVal)]
  ELSE LET fd == OpenRead(f, name)
       IN  IF fd = 0
           THEN [fs |-> f, res |-> HypervisorError("IOError")]
           ELSE [fs |-> f, res |-> Ok(InstanceTuple(name, f.data[fd]))]

\* a tuple left with the values set before the file is read
AllInstanceTuple_Defaults(file_name, data) ==
  [t |-> "tuple", v |-> 0, name |-> file_name,
   inst_id |-> StrVal(Strip(ReadLine(data))),
   memory |-> StrVal(Strip(ReadLine(AfterLine(data)))),
   vcpus |-> StrVal(Strip(ReadLine(AfterLine(AfterLine(data))))),
   stat |-> "-----", times |-> "-1"]

\* the tuple GetAllInstancesInfo builds for one file of the listing
AllInstanceTuple(file_name, data) ==
  LET inst_id == Strip(ReadLine(data))
      rest1   == AfterLine(data)
      memory  == Strip(ReadLine(rest1))
      rest2   == AfterLine(rest1)
      vcpus   == Strip(ReadLine(rest2))
      stat    == "---b-"
      times   == "0"
  IN  [t |-> "tuple", v |-> 0, name |-> file_name, inst_id |-> StrVal(inst_id),
       memory |-> StrVal(memory), vcpus |-> StrVal(vcpus),
       stat |-> stat, times |-> times]

\* os.listdir returns the names in arbitrary order: the orders it may return
ListOrders(f) ==
  LET D == DOMAIN f.link
  IN  {s \in [1..Cardinality(D) -> D] : \A i, j \in DOMAIN s : s[i] = s[j] => i = j}

\* a loop that answers what it has read so far when a file cannot be opened
ScanFails_Partial(data) == Ok(ListVal(data))

\* except IOError: raise errors.HypervisorError; the data read so far is dropped
ScanFails(data) == HypervisorError("IOError")

\* the loop of GetAllInstancesInfo over the names still to read
RECURSIVE ReadAll(_, _, _)
ReadAll(f, todo, data) ==
  IF todo = <<>> THEN Ok(ListVal(data))
  ELSE LET fd == OpenRead(f, Head(todo))
       IN  IF fd = 0
           THEN ScanFails(data)
           ELSE ReadAll(f, Tail(todo),
                        Append(data, AllInstanceTuple(Head(todo), f.data[fd])))

\* FakeHypervisor.GetAllInstancesInfo, os.listdir answering the names in order
GetAllInstancesInfoRun(f, order) ==
  IF ListDir(f).kind # "ok"
  THEN [fs |-> f, res |-> ListDir(f)]
  ELSE [fs |-> f, res |-> ReadAll(f, order, <<>>)]

\* a Start that writes the record without asking whether it exists
StartInstanceRun_NoCheck(f, name, memory, vcpus) ==
  LET o == OpenWrite(f, name)
  IN  IF o.fd = 0
      THEN [fs |-> o.fs, res |-> HypervisorError("IOError")]
      ELSE [fs |-> WriteClose(o.fs, o.fd, RecordText(memory, vcpus)),
            res |-> Ok(NoneVal)]

\* FakeHypervisor.StartInstance
StartInstanceRun(f, name, memory, vcpus) ==
  IF PathExists(f, name)
  THEN [fs |-> f, res |-> HypervisorError("already running")]
  ELSE LET o == OpenWrite(f, name)
       IN  IF o.fd = 0
           THEN [fs |-> o.fs, res |-> HypervisorError("IOError")]
           ELSE [fs |-> WriteClose(o.fs, o.fd, RecordText(memory, vcpus)),
                 res |-> Ok(NoneVal)]

\* a Stop that removes the file if it is there and succeeds either way
StopInstanceRun_Silent(f, name) ==
  [fs |-> Collect(RemoveFile(f, name), {}), res |-> Ok(NoneVal)]

\* a Stop that checks and reports success but leaves the file
StopInstanceRun_KeepsFile(f, name) ==
  IF ~PathExists(f, name)
  THEN [fs |-> f, res |-> HypervisorError("not running")]
  ELSE [fs |-> f, res |-> Ok(NoneVal)]

\* a Stop that empties the whole directory
StopInstanceRun_RemovesAll(f, name) ==
  IF ~PathExists(f, name)
  THEN [fs |-> f, res |-> HypervisorError("not running")]
  ELSE [fs |-> Mkdir(NoDir), res |-> Ok(NoneVal)]

\* FakeHypervisor.StopInstance
StopInstanceRun(f, name) ==
  IF ~PathExists(f, name)
  THEN [fs |-> f, res |-> HypervisorError("not running")]
  ELSE [fs |-> Collect(RemoveFile(f, name), {}), res |-> Ok(NoneVal)]

\* a Reboot that stops the instance, and fails when it is not running
RebootInstanceRun_Stops(f, name) ==
  IF ~PathExists(f, name)
  THEN [fs |-> f, res |-> HypervisorError("not running")]
  ELSE [fs |-> Collect(RemoveFile(f, name), {}), res |-> Ok(NoneVal)]

\* FakeHypervisor.RebootInstance
RebootInstanceRun(f, name) ==
  [fs |-> f, res |-> Ok(NoneVal)]

\* a Verify that raises where the code returns the message
VerifyRun_Raises(f) ==
  IF ~DirExists(f)
  THEN [fs |-> f, res |-> HypervisorError("The required directory does not exist.")]
  ELSE [fs |-> f, res |-> Ok(NoneVal)]

\* FakeHypervisor.Verify
VerifyRun(f) ==
  IF ~DirExists(f)
  THEN [fs |-> f, res |-> Ok(StrVal("The required directory does not exist."))]
  ELSE [fs |-> f, res |-> Ok(NoneVal)]

\* what the read handlers answer in the current state
ListInstances == ListInstancesRun(fs).res
GetInstanceInfo(name) == GetInstanceInfoRun(fs, name).res

-----------------------------------------------------------------------------
(* The node's counters and GetNodeInfo *)

\* a node: its counters in kB, its processors, and whether /proc/meminfo
\* and /proc/cpuinfo can be read
Node(total, free, buffers, cached, active, cpus, memOk, cpuOk) ==
  [MemTotal |-> total, MemFree |-> free, Buffers |-> buffers,
   Cached |-> cached, Active |-> active, cpus |-> cpus,
   memOk |-> memOk, cpuOk |-> cpuOk]

\* no node: the call read no counters
NoHost == Node(0, 0, 0, 0, 0, 0, FALSE, FALSE)

Hosts ==
  { Node(4096000, 512000, 1000, 1000, 2048000, 2, TRUE, TRUE),
    Node(2047, 1024, 2048, 0, 1023, 1, TRUE, TRUE),
    Node(4096000, 512000, 1000, 1000, 2048000, 2, FALSE, TRUE),
    Node(2047, 1024, 2048, 0, 1023, 1, TRUE, FALSE) }

KeyMemTotal == <<"M", "e", "m", "T", "o", "t", "a", "l">>
KeyMemFree == <<"M", "e", "m", "F", "r", "e", "e">>
KeyBuffers == <<"B", "u", "f", "f", "e", "r", "s">>
KeyCached == <<"C", "a", "c", "h", "e", "d">>
KeySwapCached == <<"S", "w", "a", "p", "C", "a", "c", "h", "e", "d">>
KeyActive == <<"A", "c", "t", "i", "v", "e">>
KeyProcessor == <<"p", "r", "o", "c", "e", "s", "s", "o", "r">>
KeyCpuMHz == <<"c", "p", "u", " ", "M", "H", "z">>

\* a line of /proc/meminfo: "MemTotal:      4096000 kB"
MemLine(key, kb) ==
  key \o <<":", " ", " ", " ">> \o FormatD(kb) \o <<" ", "k", "B", "\n">>

\* what /proc/meminfo holds on node h
MemInfoText(h) ==
  MemLine(KeyMemTotal, h.MemTotal) \o MemLine(KeyMemFree, h.MemFree)
    \o MemLine(KeyBuffers, h.Buffers) \o MemLine(KeyCached, h.Cached)
    \o MemLine(KeySwapCached, 2048) \o MemLine(KeyActive, h.Active)

\* the lines of /proc/cpuinfo for processor i: "processor\t: 0", "cpu MHz\t: 2400"
CpuLines(i) ==
  KeyProcessor \o <<"\t", ":", " ">> \o FormatD(i) \o <<"\n">>
    \o KeyCpuMHz \o <<"\t", ":", " ">> \o FormatD(2400) \o <<"\n", "\n">>

\* what /proc/cpuinfo holds on a node with n processors
RECURSIVE CpuInfoText(_)
CpuInfoText(n) ==
  IF n = 0 THEN <<>> ELSE CpuInfoText(n - 1) \o CpuLines(n - 1)

\* the end of the line of s that starts at position i: its "\n", or the end
\* of s
LineEnd(s, i) ==
  LET E == {j \in i..Len(s) : s[j] = "\n"} \cup {Len(s)}
  IN  CHOOSE e \in E : \A j \in E : e <= j

\* the lines of s from position i on, each with its "\n"
RECURSIVE LinesFrom(_, _)
LinesFrom(s, i) ==
  IF i > Len(s) THEN <<>>
  ELSE LET e == LineEnd(s, i)
       IN  <<SubSeq(s, i, e)>> \o LinesFrom(s, e + 1)

\* fh.readlines()
ReadLines(s) == LinesFrom(s, 1)

\* position of the first ":" of s, 0 when it has none
ColonAt(s) ==
  LET C == {i \in 1..Len(s) : s[i] = ":"}
  IN  IF C = {} THEN 0 ELSE CHOOSE i \in C : \A j \in C : i <= j

\* val.split()[0]: the characters of s up to the first whitespace
RECURSIVE FirstField(_)
FirstField(s) ==
  IF s = <<>> \/ Head(s) \in Whitespace THEN <<>>
  ELSE <<Head(s)>> \o FirstField(Tail(s))

DigitValue(ch) == CHOOSE d \in 0..9 : DigitChars[d + 1] = ch
IsDigit(ch) == \E d \in 0..9 : DigitChars[d + 1] = ch

\* int(text), for a text of digits
RECURSIVE ParseInt(_)
ParseInt(s) ==
  IF s = <<>> THEN 0
  ELSE 10 * ParseInt(SubSeq(s, 1, Len(s) - 1)) + DigitValue(s[Len(s)])

\* a conversion that takes 1000 kB for a MiB
KbToMb_Decimal(kb) == kb \div 1000

\* int(val.split()[0])/1024, the integer division of Python 2
KbToMb(kb) == kb \div 1024

\* a test that takes every key ending in "Cached" for a free-memory counter
IsFreeKey_Suffix(key) ==
  \/ key \in {KeyMemFree, KeyBuffers, KeyCached}
  \/ (Len(key) >= 6 /\ SubSeq(key, Len(key) - 5, Len(key)) = KeyCached)

\* key in ('MemFree', 'Buffers', 'Cached')
IsFreeKey(key) == key \in {KeyMemFree, KeyBuffers, KeyCached}

\* the loop over the lines of /proc/meminfo: acc holds result and sum_free
RECURSIVE ScanMemInfo(_, _)
ScanMemInfo(lines, acc) ==
  IF lines = <<>> THEN acc
  ELSE LET line == Head(lines)
           at == ColonAt(line)
       IN  IF at = 0 THEN ScanMemInfo(Tail(lines), acc)
           ELSE LET key == Strip(SubSeq(line, 1, at - 1))
                    val == Strip(SubSeq(line, at + 1, Len(line)))
                    mb == KbToMb(ParseInt(FirstField(val)))
                IN  IF key = KeyMemTotal
                      THEN ScanMemInfo(Tail(lines),
                             [acc EXCEPT !.result = MapPut(@, "memory_total", IntVal(mb))])
                    ELSE IF IsFreeKey(key)
                      THEN ScanMemInfo(Tail(lines),
                             [acc EXCEPT !.sum_free = @ + mb])
                    ELSE IF key = KeyActive
                      THEN ScanMemInfo(Tail(lines),
                             [acc EXCEPT !.result = MapPut(@, "memory_dom0", IntVal(mb))])
                    ELSE ScanMemInfo(Tail(lines), acc)

\* a line matching "^processor\s*:\s*[0-9]+\s*$"
IsProcessorLine(line) ==
  /\ Len(line) > Len(KeyProcessor)
  /\ SubSeq(line, 1, Len(KeyProcessor)) = KeyProcessor
  /\ LET rest == LStrip(SubSeq(line, Len(KeyProcessor) + 1, Len(line)))
     IN  /\ rest # <<>>
         /\ Head(rest) = ":"
         /\ LET num == Strip(Tail(rest))
            IN  num # <<>> /\ \A i \in 1..Len(num) : IsDigit(num[i])

\* len(re.findall(...)), line by line
CountProcessors(text) ==
  LET lines == ReadLines(text)
  IN  Cardinality({i \in 1..Len(lines) : IsProcessorLine(lines[i])})

DictVal(d) == [t |-> "dict", v |-> d]

\* FakeHypervisor.GetNodeInfo on node h
GetNodeInfoRun(f, h) ==
  IF ~h.memOk THEN [fs |-> f, res |-> HypervisorError("IOError")]
  ELSE LET acc == ScanMemInfo(ReadLines(MemInfoText(h)),
                              [result |-> EmptyMap, sum_free |-> 0])
           result == MapPut(acc.result, "memory_free", IntVal(acc.sum_free))
       IN  IF ~h.cpuOk
           THEN [fs |-> f, res |-> HypervisorError("EnvironmentError")]
           ELSE [fs |-> f,
                 res |-> Ok(DictVal(MapPut(result, "cpu_total",
                              IntVal(CountProcessors(CpuInfoText(h.cpus))))))]

\* "echo Console not available for fake hypervisor"
ConsoleCommand ==
  <<"e", "c", "h", "o", " ", "C", "o", "n", "s", "o", "l", "e", " ", "n",
    "o", "t", " ", "a", "v", "a", "i", "l", "a", "b", "l", "e", " ", "f",
    "o", "r", " ", "f", "a", "k", "e", " ", "h", "y", "p", "e", "r", "v",
    "i", "s", "o", "r">>

\* FakeHypervisor.GetShellCommandForConsole
GetShellCommandForConsoleRun(f, name) ==
  [fs |-> f, res |-> Ok(StrVal(ConsoleCommand))]

-----------------------------------------------------------------------------
(* State *)

NoCall == [op |-> "none", name |-> "", memory |-> 0, vcpus |-> 0,
           res |-> Ok(NoneVal)]
\* a returned call; host is the node GetNodeInfo read its counters from
Call(op, name, memory, vcpus, res) ==
  [op |-> op, name |-> name, memory |-> memory, vcpus |-> vcpus, res |-> res,
   host |-> NoHost]

Idle == [pc |-> "idle", op |-> "none", name |-> "", memory |-> 0, vcpus |-> 0,
         fd |-> 0, res |-> Ok(NoneVal)]

NeverRun == [st |-> "none", memory |-> 0, vcpus |-> 0]

NoScan == [listed |-> <<>>, todo |-> <<>>, data |-> <<>>]

\* the lifecycle after a call on name returned res
Transition(lc, op, name, memory, vcpus, res) ==
  IF res.kind = "ok" /\ op = "StartInstance"
    THEN [lc EXCEPT ![name] = [st |-> "Start", memory |-> memory, vcpus |-> vcpus]]
  ELSE IF res.kind = "ok" /\ op = "StopInstance"
    THEN [lc EXCEPT ![name] = [st |-> "Stop", memory |-> 0, vcpus |-> 0]]
  ELSE lc

\* the state after the constructor ran on a node with no state directory
Init ==
  /\ fs = InitRun(NoDir).fs
  /\ last = NoCall
  /\ lifecycle = [n \in Names |-> NeverRun]
  /\ proc = [c \in Callers |-> Idle]
  /\ calls = 0
  /\ scan = [c \in Callers |-> NoScan]

-----------------------------------------------------------------------------
(* Serialized callers: every call runs to its return before the next *)

Returns(op, name, memory, vcpus, r) ==
  /\ fs' = r.fs
  /\ last' = Call(op, name, memory, vcpus, r.res)
  /\ lifecycle' = Transition(lifecycle, op, name, memory, vcpus, r.res)
  /\ UNCHANGED <<proc, calls, scan>>

Construct == Returns("__init__", "", 0, 0, InitRun(fs))

DoListInstances == Returns("ListInstances", "", 0, 0, ListInstancesRun(fs))

DoGetInstanceInfo ==
  \E n \in Names : Returns("GetInstanceInfo", n, 0, 0, GetInstanceInfoRun(fs, n))

DoStartInstance ==
  \E n \in Names, m \in Memories, v \in Vcpus :
    Returns("StartInstance", n, m, v, StartInstanceRun(fs, n, m, v))

DoStopInstance ==
  \E n \in Names : Returns("StopInstance", n, 0, 0, StopInstanceRun(fs, n))

DoRebootInstance ==
  \E n \in Names : Returns("RebootInstance", n, 0, 0, RebootInstanceRun(fs, n))

DoVerify == Returns("Verify", "", 0, 0, VerifyRun(fs))

\* the counters are read anew on every call: h is the node as it is then
DoGetNodeInfo ==
  \E h \in Hosts :
    LET r == GetNodeInfoRun(fs, h)
    IN  /\ fs' = r.fs
        /\ last' = [Call("GetNodeInfo", "", 0, 0, r.res) EXCEPT !.host = h]
        /\ lifecycle' = Transition(lifecycle, "GetNodeInfo", "", 0, 0, r.res)
        /\ UNCHANGED <<proc, calls, scan>>

DoGetShellCommandForConsole ==
  \E n \in Names :
    Returns("GetShellCommandForConsole", n, 0, 0,
            GetShellCommandForConsoleRun(fs, n))

DoGetAllInstancesInfo ==
  \E order \in ListOrders(fs) :
    Returns("GetAllInstancesInfo", "", 0, 0, GetAllInstancesInfoRun(fs, order))

\* the environment removes the state directory once it is empty (rmdir)
DirRemoved ==
  /\ fs.dir /\ DOMAIN fs.link = {}
  /\ fs' = NoDir
  /\ last' = Call("rmdir", "", 0, 0, Ok(NoneVal))
  /\ UNCHANGED <<lifecycle, proc, calls, scan>>

Next ==
  \/ Construct
  \/ DoListInstances
  \/ DoGetInstanceInfo
  \/ DoStartInstance
  \/ DoStopInstance
  \/ DoRebootInstance
  \/ DoVerify
  \/ DoGetAllInstancesInfo
  \/ DoGetNodeInfo
  \/ DoGetShellCommandForConsole
  \/ DirRemoved

Spec == Init /\ [][Next]_vars

-----------------------------------------------------------------------------
(* Claims about serialized callers (Spec) *)

ReturnedOk(op) == last.op = op /\ last.res.kind = "ok"
IsAbsent(res) == res.kind = "ok" /\ res.val.t = "None"
IsRecord(res) == res.kind = "ok" /\ res.val.t = "tuple"
Listed == IF ListInstances.kind = "ok" THEN ListInstances.val.v ELSE {}
RecordData(f, name) == f.data[f.link[name]]

\* C1: right after StartInstance(n, m, v) returned success, GetInstanceInfo(n)
\* is a record with name n, id "0", memory equal to m and vcpus equal to v,
\* and n is in ListInstances().
C1_InfoAfterStart ==
  ReturnedOk("StartInstance") =>
    LET r == GetInstanceInfo(last.name)
    IN  /\ IsRecord(r)
        /\ r.val.name = last.name
        /\ PyEq(r.val.inst_id, StrVal(<<"0">>))
        /\ PyEq(r.val.memory, IntVal(last.memory))
        /\ PyEq(r.val.vcpus, IntVal(last.vcpus))
        /\ ListInstances.kind = "ok"
        /\ last.name \in Listed

\* What the code does in the case of C1: the record reports memory and
\* vcpus as the decimal text of m and v.
InfoAfterStartIsText ==
  ReturnedOk("StartInstance") =>
    LET r == GetInstanceInfo(last.name)
    IN  /\ IsRecord(r)
        /\ r.val.name = last.name
        /\ PyEq(r.val.inst_id, StrVal(<<"0">>))
        /\ PyEq(r.val.memory, StrVal(FormatD(last.memory)))
        /\ PyEq(r.val.vcpus, StrVal(FormatD(last.vcpus)))
        /\ last.name \in Listed

\* C2: StartInstance(n, m2, v2) called while a record of n exists fails with
\* HypervisorError "already running" and changes nothing: the record of n
\* still carries the m1 and v1 of the Start that created it.
C2_StartWhileRunning ==
  [][(last'.op = "StartInstance" /\ PathExists(fs, last'.name)) =>
       /\ last'.res = HypervisorError("already running")
       /\ fs' = fs
       /\ PathExists(fs', last'.name)
       /\ RecordData(fs', last'.name) =
            RecordText(lifecycle[last'.name].memory, lifecycle[last'.name].vcpus)
       /\ lifecycle' = lifecycle]_vars

C2_Witness ==
  /\ last.op = "StartInstance"
  /\ last.res = HypervisorError("already running")
  /\ lifecycle[last.name].st = "Start"
  /\ lifecycle[last.name].memory # last.memory
  /\ lifecycle[last.name].vcpus # last.vcpus

\* C3: StopInstance(n) called while no record of n exists (never started, or
\* stopped before) fails with HypervisorError "not running" and changes
\* nothing.
C3_StopWhileNotRunning ==
  [][(last'.op = "StopInstance" /\ ~PathExists(fs, last'.name)) =>
       /\ last'.res = HypervisorError("not running")
       /\ fs' = fs
       /\ lifecycle' = lifecycle]_vars

C3_Witness ==
  /\ last.op = "StopInstance"
  /\ last.res = HypervisorError("not running")
  /\ lifecycle[last.name].st = "Stop"
  /\ \E n \in Names : lifecycle[n].st = "none"

\* C4: after StopInstance(n) returned success the record of n is gone: n is
\* not in ListInstances() and GetInstanceInfo(n) is absent; when no other
\* name is running, ListInstances() is the empty list.
C4_GoneAfterStop ==
  ReturnedOk("StopInstance") =>
    /\ ListInstances.kind = "ok"
    /\ last.name \notin Listed
    /\ IsAbsent(GetInstanceInfo(last.name))
    /\ (\A n \in Names \ {last.name} : lifecycle[n].st # "Start") =>
         PyEq(ListInstances.val, ListVal({}))

C4_Witness ==
  /\ ReturnedOk("StopInstance")
  /\ \A n \in Names : lifecycle[n].st # "Start"
  /\ PyEq(ListInstances.val, ListVal({}))

\* C5: while the state directory is present, the names ListInstances()
\* returns are exactly the names for which GetInstanceInfo is not absent, and
\* exactly the names whose last successful transition was a Start.
C5_ListedIffRunning ==
  DirExists(fs) =>
    /\ ListInstances.kind = "ok"
    /\ Listed = {n \in Names : ~IsAbsent(GetInstanceInfo(n))}
    /\ Listed = {n \in Names : lifecycle[n].st = "Start"}

C5_Witness ==
  /\ DirExists(fs)
  /\ \E n \in Names : lifecycle[n].st = "Start" /\ n \in Listed
  /\ \E n \in Names : lifecycle[n].st = "Stop" /\ n \notin Listed

\* C6: GetInstanceInfo(n) for a name with no record returns absent (None)
\* and raises no error.
C6_UnknownIsAbsent ==
  /\ \A n \in Names : ~PathExists(fs, n) => IsAbsent(GetInstanceInfo(n))
  /\ (last.op = "GetInstanceInfo" /\ ~PathExists(fs, last.name)) =>
       IsAbsent(last.res)

C6_Witness ==
  /\ last.op = "GetInstanceInfo"
  /\ IsAbsent(last.res)
  /\ ~DirExists(fs)
  /\ lifecycle[last.name].st = "Stop"

\* C7: RebootInstance(n) never fails and changes nothing, whether n is
\* running or not: GetInstanceInfo(n) answers the same before and after.
C7_RebootIsNoOp ==
  [][(last'.op = "RebootInstance") =>
       /\ last'.res.kind = "ok"
       /\ fs' = fs
       /\ GetInstanceInfoRun(fs', last'.name) = GetInstanceInfoRun(fs, last'.name)
       /\ lifecycle' = lifecycle]_vars

C7_Witness ==
  /\ ReturnedOk("RebootInstance")
  /\ ~PathExists(fs, last.name)
  /\ \E n \in Names : PathExists(fs, n)

\* C9: from the successful StartInstance(n, m, v) until the successful
\* StopInstance(n), every GetInstanceInfo(n) reports memory m and vcpus v.
C9_ReportsStartArguments ==
  \A n \in Names :
    lifecycle[n].st = "Start" =>
      LET r == GetInstanceInfo(n)
      IN  /\ IsRecord(r)
          /\ PyEq(r.val.memory, IntVal(lifecycle[n].memory))
          /\ PyEq(r.val.vcpus, IntVal(lifecycle[n].vcpus))

\* What the code does in the case of C9: the text of the record of a running
\* instance stays the one its Start wrote.
RecordKeepsStartText ==
  \A n \in Names :
    lifecycle[n].st = "Start" =>
      /\ PathExists(fs, n)
      /\ RecordData(fs, n) = RecordText(lifecycle[n].memory, lifecycle[n].vcpus)

\* C10: ListInstances() changes nothing and, when the state directory is
\* missing, fails with HypervisorError and no other kind of error.
C10_ListFailsTyped ==
  (last.op = "ListInstances" /\ ~DirExists(fs)) =>
     last.res.kind = "HypervisorError"

\* C12: Verify() never fails: with the state directory absent it returns a
\* message, with the directory present it returns None, and either way it
\* changes nothing (it does not create the directory).
C12_VerifyReports ==
  [][(last'.op = "Verify") =>
       /\ last'.res.kind = "ok"
       /\ fs' = fs
       /\ DirExists(fs) => last'.res.val.t = "None"
       /\ ~DirExists(fs) => (last'.res.val.t = "str" /\ ~DirExists(fs'))]_vars

C12_Witness ==
  /\ ReturnedOk("Verify")
  /\ last.res.val.t = "str"
  /\ ~DirExists(fs)

\* C16: the constructor creates the state directory, empty, when it is absent
\* and leaves it untouched otherwise: the records and what GetInstanceInfo
\* reports for them are kept, and Verify() right after it returns None.
C16_InitKeepsRecords ==
  [][(last'.op = "__init__") =>
       /\ last'.res.kind = "ok"
       /\ DirExists(fs')
       /\ DirExists(fs) => fs' = fs
       /\ ~DirExists(fs) => DOMAIN fs'.link = {}
       /\ \A n \in Names :
            /\ PathExists(fs, n) => PathExists(fs', n)
            /\ GetInstanceInfoRun(fs', n).res = GetInstanceInfoRun(fs, n).res
       /\ lifecycle' = lifecycle
       /\ VerifyRun(fs').res = Ok(NoneVal)]_vars

C16_Witness ==
  /\ ReturnedOk("__init__")
  /\ \E n \in Names : lifecycle[n].st = "Start" /\ IsRecord(GetInstanceInfo(n))
  /\ VerifyRun(fs).res = Ok(NoneVal)

\* C17: with serialized callers the successful transitions of a name
\* alternate: a Start succeeds only when the last successful transition of the
\* name was a Stop or there was none, a Stop only when it was a Start.
C17_StartStopAlternate ==
  [][/\ (last'.op = "StartInstance" /\ last'.res.kind = "ok") =>
          /\ lifecycle[last'.name].st \in {"none", "Stop"}
          /\ lifecycle'[last'.name].st = "Start"
     /\ (last'.op = "StopInstance" /\ last'.res.kind = "ok") =>
          /\ lifecycle[last'.name].st = "Start"
          /\ lifecycle'[last'.name].st = "Stop"]_vars

C17_Witness ==
  /\ ReturnedOk("StopInstance")
  /\ lifecycle[last.name].st = "Stop"
  /\ \E n \in Names : lifecycle[n].st = "Start"

\* C18: StartInstance(n, ...) and StopInstance(n), succeeding or failing,
\* leave every other name as it was: running or not, with the same record.
C18_OtherNamesUntouched ==
  [][(last'.op \in {"StartInstance", "StopInstance"}) =>
       \A n \in Names \ {last'.name} :
         /\ PathExists(fs', n) = PathExists(fs, n)
         /\ PathExists(fs, n) => RecordData(fs', n) = RecordData(fs, n)
         /\ GetInstanceInfoRun(fs', n).res = GetInstanceInfoRun(fs, n).res
         /\ lifecycle'[n] = lifecycle[n]]_vars

C18_Witness ==
  /\ ReturnedOk("StopInstance")
  /\ \E n \in Names \ {last.name} :
       /\ lifecycle[n].st = "Start"
       /\ RecordData(fs, n) = RecordText(lifecycle[n].memory, lifecycle[n].vcpus)

\* C20: with no call in progress, GetAllInstancesInfo() returns exactly the
\* records GetInstanceInfo(n) returns for the names n of ListInstances(),
\* field by field, none missing and none added.
C20_ReadPathsAgree ==
  /\ DirExists(fs) =>
       \A order \in ListOrders(fs) :
         LET all == GetAllInstancesInfoRun(fs, order).res
         IN  /\ all.kind = "ok"
             /\ Len(all.val.v) = Cardinality(Listed)
             /\ {all.val.v[i].name : i \in 1..Len(all.val.v)} = Listed
             /\ \A i \in 1..Len(all.val.v) :
                  /\ IsRecord(GetInstanceInfo(all.val.v[i].name))
                  /\ all.val.v[i] = GetInstanceInfo(all.val.v[i].name).val
  /\ ReturnedOk("GetAllInstancesInfo") =>
       /\ Len(last.res.val.v) = Cardinality(Listed)
       /\ \A i \in 1..Len(last.res.val.v) :
            last.res.val.v[i] = GetInstanceInfo(last.res.val.v[i].name).val

C20_Witness ==
  /\ ReturnedOk("GetAllInstancesInfo")
  /\ Len(last.res.val.v) >= 2
  /\ last.res.val.v[1].memory # last.res.val.v[2].memory
  /\ last.res.val.v[1] = GetInstanceInfo(last.res.val.v[1].name).val


ReadOps ==
  {"ListInstances", "GetInstanceInfo", "GetAllInstancesInfo", "GetNodeInfo",
   "GetShellCommandForConsole", "Verify"}

\* what the read-only call c answers when it is computed on directory f and
\* node h
AnswersFor(c, f, h) ==
  CASE c.op = "ListInstances" -> c.res = ListInstancesRun(f).res
    [] c.op = "GetInstanceInfo" -> c.res = GetInstanceInfoRun(f, c.name).res
    [] c.op = "GetAllInstancesInfo" ->
         \E order \in ListOrders(f) : c.res = GetAllInstancesInfoRun(f, order).res
    [] c.op = "GetNodeInfo" -> c.res = GetNodeInfoRun(f, h).res
    [] c.op = "GetShellCommandForConsole" ->
         c.res = GetShellCommandForConsoleRun(f, c.name).res
    [] c.op = "Verify" -> c.res = VerifyRun(f).res

\* C13: ListInstances, GetInstanceInfo, GetAllInstancesInfo, GetNodeInfo,
\* GetShellCommandForConsole and Verify leave the state directory as it was
\* (the same records with the same contents), whether they succeed or fail,
\* and each answers for the directory as it is at the time of the call.
C13_ReadersLeaveState ==
  [][last'.op \in ReadOps =>
       /\ fs' = fs
       /\ lifecycle' = lifecycle
       /\ AnswersFor(last', fs, last'.host)]_vars

\* a name was started and stopped, the directory was removed, and
\* GetAllInstancesInfo then failed: nothing of the state was touched
C13_Witness ==
  /\ last.op = "GetAllInstancesInfo"
  /\ last.res.kind # "ok"
  /\ ~fs.dir
  /\ \E n \in Names : lifecycle[n].st = "Stop"

NodeInfoReturned == last.op = "GetNodeInfo"

\* C14: GetNodeInfo reports memory_total = MemTotal div 1024, memory_dom0 =
\* Active div 1024 and cpu_total = the number of processor entries of the CPU
\* table; when /proc/meminfo or /proc/cpuinfo cannot be read it fails with
\* HypervisorError and answers no snapshot.
C14_NodeInfoFigures ==
  NodeInfoReturned =>
    IF last.host.memOk /\ last.host.cpuOk
    THEN /\ last.res.kind = "ok"
         /\ last.res.val.t = "dict"
         /\ last.res.val.v["memory_total"]
              = IntVal(last.host.MemTotal \div 1024)
         /\ last.res.val.v["memory_dom0"] = IntVal(last.host.Active \div 1024)
         /\ last.res.val.v["cpu_total"] = IntVal(last.host.cpus)
    ELSE /\ last.res.kind = "HypervisorError"
         /\ last.res.val = NoneVal

\* MemTotal 4096000 kB is reported as 4000, on a node of two processors
C14_Witness ==
  /\ ReturnedOk("GetNodeInfo")
  /\ last.host.MemTotal = 4096000
  /\ last.res.val.v["memory_total"] = IntVal(4000)
  /\ last.res.val.v["memory_dom0"] = IntVal(2000)
  /\ last.res.val.v["cpu_total"] = IntVal(2)

\* the kB that count as free on node h
FreeKb(h) == h.MemFree + h.Buffers + h.Cached

\* C15 as stated: memory_free = (MemFree + Buffers + Cached) div 1024
C15_FreeIsSumThenDiv ==
  ReturnedOk("GetNodeInfo") =>
    last.res.val.v["memory_free"] = IntVal(FreeKb(last.host) \div 1024)

\* C15: GetNodeInfo reports memory_free = MemFree div 1024 + Buffers div 1024
\* + Cached div 1024: each of the three counters is divided by 1024 and the
\* quotients are added, so the figure is (MemFree + Buffers + Cached) div 1024
\* or up to 2 less.
C15_FreeIsSumOfQuotients ==
  ReturnedOk("GetNodeInfo") =>
    LET h == last.host
    IN  /\ last.res.val.v["memory_free"]
             = IntVal(h.MemFree \div 1024 + h.Buffers \div 1024
                        + h.Cached \div 1024)
        /\ last.res.val.v["memory_free"].v
             \in (FreeKb(h) \div 1024 - 2) .. (FreeKb(h) \div 1024)

\* 512000 + 1000 + 1000 kB: the quotients add up to 500, the sum gives 501
C15_Witness ==
  /\ ReturnedOk("GetNodeInfo")
  /\ last.host.MemFree = 512000
  /\ last.host.Buffers = 1000
  /\ last.host.Cached = 1000
  /\ last.res.val.v["memory_free"] = IntVal(500)
  /\ FreeKb(last.host) \div 1024 = 501

-----------------------------------------------------------------------------
(* Concurrent callers: a handler is a sequence of system calls, and the     *)
(* system calls of different callers interleave                             *)

Held(p) == {p[c].fd : c \in Callers} \ {0}

\* caller c moves on inside its call
Goes(c, pc, op, name, memory, vcpus, fd, f) ==
  /\ proc' = [proc EXCEPT ![c] = [pc |-> pc, op |-> op, name |-> name,
                                  memory |-> memory, vcpus |-> vcpus,
                                  fd |-> fd, res |-> Ok(NoneVal)]]
  /\ fs' = Collect(f, Held(proc'))
  /\ UNCHANGED <<last, lifecycle, scan>>

\* the call of caller c returns res
Done(c, op, name, memory, vcpus, res, f) ==
  /\ proc' = [proc EXCEPT ![c] = [pc |-> "idle", op |-> op, name |-> name,
                                  memory |-> memory, vcpus |-> vcpus,
                                  fd |-> 0, res |-> res]]
  /\ fs' = Collect(f, Held(proc'))
  /\ last' = Call(op, name, memory, vcpus, res)
  /\ lifecycle' = Transition(lifecycle, op, name, memory, vcpus, res)
  /\ UNCHANGED scan

Begins(c) ==
  /\ proc[c].pc = "idle"
  /\ calls < MaxCalls
  /\ calls' = calls + 1

\* StartInstance, the existence check
StartCheck(c) ==
  /\ Begins(c)
  /\ \E n \in RaceNames, m \in Memories, v \in Vcpus :
       IF PathExists(fs, n)
       THEN Done(c, "StartInstance", n, m, v,
                 HypervisorError("already running"), fs)
       ELSE Goes(c, "start_open", "StartInstance", n, m, v, 0, fs)

\* StartInstance, fh = file(file_name, "w")
StartOpen(c) ==
  /\ proc[c].pc = "start_open"
  /\ LET p == proc[c]
         o == OpenWrite(fs, p.name)
     IN  IF o.fd = 0
         THEN Done(c, p.op, p.name, p.memory, p.vcpus,
                   HypervisorError("IOError"), o.fs)
         ELSE Goes(c, "start_write", p.op, p.name, p.memory, p.vcpus, o.fd, o.fs)
  /\ UNCHANGED calls

\* StartInstance, fh.write(...) and fh.close()
StartWrite(c) ==
  /\ proc[c].pc = "start_write"
  /\ LET p == proc[c]
     IN  Done(c, p.op, p.name, p.memory, p.vcpus, Ok(NoneVal),
              WriteClose(fs, p.fd, RecordText(p.memory, p.vcpus)))
  /\ UNCHANGED calls

\* StopInstance, the existence check
StopCheck(c) ==
  /\ Begins(c)
  /\ \E n \in RaceNames :
       IF ~PathExists(fs, n)
       THEN Done(c, "StopInstance", n, 0, 0, HypervisorError("not running"), fs)
       ELSE Goes(c, "stop_remove", "StopInstance", n, 0, 0, 0, fs)

\* StopInstance, utils.RemoveFile(file_name)
StopRemove(c) ==
  /\ proc[c].pc = "stop_remove"
  /\ Done(c, proc[c].op, proc[c].name, 0, 0, Ok(NoneVal),
          RemoveFile(fs, proc[c].name))
  /\ UNCHANGED calls

\* GetInstanceInfo, the existence check
GetCheck(c) ==
  /\ Begins(c)
  /\ \E n \in RaceNames :
       IF ~PathExists(fs, n)
       THEN Done(c, "GetInstanceInfo", n, 0, 0, Ok(NoneVal), fs)
       ELSE Goes(c, "get_open", "GetInstanceInfo", n, 0, 0, 0, fs)

\* GetInstanceInfo, fh = file(file_name, "r")
GetOpen(c) ==
  /\ proc[c].pc = "get_open"
  /\ LET p == proc[c]
         fd == OpenRead(fs, p.name)
     IN  IF fd = 0
         THEN Done(c, p.op, p.name, 0, 0, HypervisorError("IOError"), fs)
         ELSE Goes(c, "get_read", p.op, p.name, 0, 0, fd, fs)
  /\ UNCHANGED calls

\* GetInstanceInfo, the three readline() (one read of the file) and close
GetRead(c) ==
  /\ proc[c].pc = "get_read"
  /\ LET p == proc[c]
     IN  Done(c, p.op, p.name, 0, 0,
              Ok(InstanceTuple(p.name, fs.data[p.fd])), fs)
  /\ UNCHANGED calls

\* caller c moves on inside GetAllInstancesInfo
ScanGoes(c, pc, fd, sc) ==
  /\ proc' = [proc EXCEPT ![c] = [pc |-> pc, op |-> "GetAllInstancesInfo",
                                  name |-> "", memory |-> 0, vcpus |-> 0,
                                  fd |-> fd, res |-> Ok(NoneVal)]]
  /\ scan' = [scan EXCEPT ![c] = sc]
  /\ fs' = Collect(fs, Held(proc'))
  /\ UNCHANGED <<last, lifecycle>>

\* GetAllInstancesInfo of caller c returns res
ScanDone(c, res, sc) ==
  /\ proc' = [proc EXCEPT ![c] = [pc |-> "idle", op |-> "GetAllInstancesInfo",
                                  name |-> "", memory |-> 0, vcpus |-> 0,
                                  fd |-> 0, res |-> res]]
  /\ scan' = [scan EXCEPT ![c] = sc]
  /\ fs' = Collect(fs, Held(proc'))
  /\ last' = Call("GetAllInstancesInfo", "", 0, 0, res)
  /\ UNCHANGED lifecycle

\* GetAllInstancesInfo, os.listdir(self._ROOT_DIR)
AllList(c) ==
  /\ Begins(c)
  /\ IF ListDir(fs).kind # "ok"
     THEN ScanDone(c, ListDir(fs), NoScan)
     ELSE \E order \in ListOrders(fs) :
            LET sc == [listed |-> order, todo |-> order, data |-> <<>>]
            IN  IF order = <<>>
                THEN ScanDone(c, Ok(ListVal(<<>>)), sc)
                ELSE ScanGoes(c, "all_open", 0, sc)

\* GetAllInstancesInfo, fh = file(self._ROOT_DIR+"/"+file_name, "r")
AllOpen(c) ==
  /\ proc[c].pc = "all_open"
  /\ LET fd == OpenRead(fs, Head(scan[c].todo))
     IN  IF fd = 0
         THEN ScanDone(c, ScanFails(scan[c].data), scan[c])
         ELSE ScanGoes(c, "all_read", fd, scan[c])
  /\ UNCHANGED calls

\* GetAllInstancesInfo, the three readline(), close and data.append
AllRead(c) ==
  /\ proc[c].pc = "all_read"
  /\ LET sc == scan[c]
         more == [sc EXCEPT
                    !.todo = Tail(sc.todo),
                    !.data = Append(sc.data,
                               AllInstanceTuple(Head(sc.todo), fs.data[proc[c].fd]))]
     IN  IF more.todo = <<>>
         THEN ScanDone(c, Ok(ListVal(more.data)), more)
         ELSE ScanGoes(c, "all_open", 0, more)
  /\ UNCHANGED calls

ConcNext ==
  \E c \in Callers :
    \/ AllList(c)
    \/ AllOpen(c)
    \/ AllRead(c)
    \/ StartCheck(c)
    \/ StartOpen(c)
    \/ StartWrite(c)
    \/ StopCheck(c)
    \/ StopRemove(c)
    \/ GetCheck(c)
    \/ GetOpen(c)
    \/ GetRead(c)

\* a name no concurrent caller starts or stops
BackNames == {NameList[2]} \cap Names

\* the directory after serialized callers started the names of todo
RECURSIVE StartedAll(_, _, _)
StartedAll(f, todo, args) ==
  IF todo = <<>> THEN f
  ELSE StartedAll(StartInstanceRun(f, Head(todo), args[Head(todo)][1],
                                   args[Head(todo)][2]).fs,
                  Tail(todo), args)

\* concurrent callers find the directory as serialized callers left it:
\* each of the names either not running or started with some memory and vcpus
ConcInit ==
  \E S \in SUBSET (RaceNames \cup BackNames) :
    \E args \in [S -> Memories \X Vcpus] :
      /\ fs = StartedAll(InitRun(NoDir).fs,
                         SelectSeq(NameList, LAMBDA x : x \in S), args)
      /\ lifecycle = [n \in Names |->
                        IF n \in S
                        THEN [st |-> "Start", memory |-> args[n][1],
                              vcpus |-> args[n][2]]
                        ELSE NeverRun]
      /\ last = NoCall
      /\ proc = [c \in Callers |-> Idle]
      /\ calls = 0
      /\ scan = [c \in Callers |-> NoScan]

ConcSpec == ConcInit /\ [][ConcNext]_vars

-----------------------------------------------------------------------------
(* Claims about concurrent callers (ConcSpec) *)

BothStarted(c, d, n) ==
  /\ c # d
  /\ proc[c].pc = "idle" /\ proc[d].pc = "idle"
  /\ proc[c].op = "StartInstance" /\ proc[d].op = "StartInstance"
  /\ proc[c].name = n /\ proc[d].name = n
  /\ proc[c].res.kind = "ok" /\ proc[d].res.kind = "ok"

\* C8: two concurrent StartInstance calls on n that both began with no
\* record of n can both return success, and the record then holds the memory
\* and vcpus of the one that wrote last.
C8_LaterWriterWins ==
  \A c, d \in Callers, n \in RaceNames :
    (calls = 2 /\ BothStarted(c, d, n)) =>
       /\ PathExists(fs, n)
       /\ last.op = "StartInstance" /\ last.name = n
       /\ LET r == InstanceTuple(n, RecordData(fs, n))
          IN  /\ r.memory = StrVal(FormatD(last.memory))
              /\ r.vcpus = StrVal(FormatD(last.vcpus))

C8_Witness ==
  \E c, d \in Callers, n \in RaceNames :
    /\ calls = 2
    /\ BothStarted(c, d, n)
    /\ proc[c].memory > proc[d].memory /\ proc[c].vcpus # proc[d].vcpus
    /\ last = Call("StartInstance", n, proc[d].memory, proc[d].vcpus, Ok(NoneVal))
    /\ GetInstanceInfo(n) = Ok(InstanceTuple(n, RecordText(proc[d].memory, proc[d].vcpus)
                                                  \o <<"\n">>))

ScanReturned(c) ==
  proc[c].pc = "idle" /\ proc[c].op = "GetAllInstancesInfo"

\* C11: GetAllInstancesInfo() returns one record per instance of the state
\* directory, and is fail-fast: when a record it enumerated cannot be read
\* (also one removed between the enumeration and its read) the call fails
\* with HypervisorError and returns no partial list.
C11_AllOrNothing ==
  \A c \in Callers :
    ScanReturned(c) =>
      LET r == proc[c].res
          sc == scan[c]
      IN  /\ r.kind = "ok" =>
               /\ Len(r.val.v) = Len(sc.listed)
               /\ \A i \in 1..Len(sc.listed) : r.val.v[i].name = sc.listed[i]
          /\ r.kind # "ok" =>
               /\ r = HypervisorError("IOError")
               /\ r.val = NoneVal
               /\ sc.todo # <<>>
          /\ calls = 1 =>
               /\ r.kind = "ok"
               /\ {r.val.v[i].name : i \in 1..Len(r.val.v)} = DOMAIN fs.link
               /\ Len(r.val.v) = Cardinality(DOMAIN fs.link)

C11_Witness ==
  \E c \in Callers :
    /\ ScanReturned(c)
    /\ proc[c].res = HypervisorError("IOError")
    /\ Len(scan[c].listed) = 2
    /\ Len(scan[c].data) = 1
    /\ ~PathExists(fs, Head(scan[c].todo))

InfoReturned(c) ==
  proc[c].pc = "idle" /\ proc[c].op = "GetInstanceInfo"

\* the record of a Start, all three fields as that Start wrote them
CompleteRecord(res) ==
  /\ IsRecord(res)
  /\ res.val.inst_id = StrVal(<<"0">>)
  /\ \E m \in Memories, v \in Vcpus :
       /\ res.val.memory = StrVal(FormatD(m))
       /\ res.val.vcpus = StrVal(FormatD(v))

\* a record read from a file that holds nothing yet
EmptyRecord(res) ==
  /\ IsRecord(res)
  /\ res.val.inst_id = StrVal(<<>>)
  /\ res.val.memory = StrVal(<<>>)
  /\ res.val.vcpus = StrVal(<<>>)

====
